---- MODULE Spec2Model ----
(***************************************************************************)
(* xScout dashboard (src/dashboard/app.js): the scouting engine            *)
(* (calcRoleFit, getRadarValue, euclideanSimilarity, computeOverall), the  *)
(* asynchronous loadData / initApp boot sequence and the four render       *)
(* handlers, as a state machine.                                           *)
(*                                                                         *)
(* Numbers.  Metric values are integers here.  Role weights are kept in    *)
(* hundredths (0.30 is 30), so a weighted sum is kept in hundredths too    *)
(* and Math.round is applied to the exact quotient.  Math.round(x) is      *)
(* floor(x + 0.5) for every x, negative ones included.                     *)
(*                                                                         *)
(* Objects.  A player is a TLA+ function from property names to values,    *)
(* exactly the JSON object: a property that the object does not have is    *)
(* not in its DOMAIN.  A metric whose JSON value is true is kept as 1,     *)
(* the number every arithmetic use of it coerces it to, and its key is     *)
(* listed in the record's json_true property, which stands for the type    *)
(* of the value and is no property of the JSON object.                     *)
(***************************************************************************)
EXTENDS Integers, Sequences, FiniteSets, TLC

VARIABLES
    pc,               \* where loadData is: "fetch", "json", "ready", "failed"
    PLAYERS,          \* the global player array
    isArray,          \* whether the parsed body assigned to PLAYERS is an array
    wired,            \* initApp has attached the change listeners
    sel,              \* value of each player <select>, NoOption when it has none
    posValue,         \* value of #similar-pos-filter
    ageValue,         \* value of #similar-age-filter, a string of characters
    overviewContent,  \* what #overview-content shows
    compareContent,   \* what #compare-content shows
    rolefitContent,   \* what #rolefit-content shows
    similarContent,   \* what #similar-content shows
    ea, eb,           \* engine harness: two player records
    ew,               \* engine harness: a role template
    eout              \* engine harness: the last engine result

vars == <<pc, PLAYERS, isArray, wired, sel, posValue, ageValue,
          overviewContent, compareContent, rolefitContent, similarContent,
          ea, eb, ew, eout>>

appVars == <<pc, PLAYERS, isArray, wired, sel, posValue, ageValue,
             overviewContent, compareContent, rolefitContent, similarContent>>

engineVars == <<ea, eb, ew, eout>>

----------------------------------------------------------------------------
(* Static configuration *)

METRICS ==
    << "shots_p90", "xg_p90", "shot_conversion",
       "prog_passes_p90", "pass_completion", "key_passes_p90",
       "dribbles_p90", "pressures_p90", "press_success",
       "aerial_win_rate", "distance_p90" >>

W(attr, weight) == [attr |-> attr, weight |-> weight]

RADAR_AXES ==
    << [key |-> "attacking", metrics |-> <<"shots_p90", "xg_p90", "shot_conversion">>],
       [key |-> "creative",  metrics |-> <<"key_passes_p90", "prog_passes_p90">>],
       [key |-> "passing",   metrics |-> <<"pass_completion", "prog_passes_p90">>],
       [key |-> "dribbling", metrics |-> <<"dribbles_p90">>],
       [key |-> "defending", metrics |-> <<"pressures_p90", "press_success">>],
       [key |-> "physical",  metrics |-> <<"aerial_win_rate", "distance_p90">>] >>

\* Object.keys(ROLES): the declaration order of the role templates.
ROLE_NAMES ==
    << "Poacher", "Target Man", "Winger", "Box-to-Box MF",
       "Ball-Playing Def", "Deep-Lying Playmaker", "Pressing Winger" >>

\* Each template as Object.entries gives it: (attr, weight) pairs in
\* declaration order, the weight in hundredths.
ROLES ==
    [ r \in {ROLE_NAMES[i] : i \in 1..Len(ROLE_NAMES)} |->
        CASE r = "Poacher" ->
               << W("shot_conversion", 30), W("xg_p90", 25), W("shots_p90", 20),
                  W("aerial_win_rate", 15), W("press_success", 10) >>
          [] r = "Target Man" ->
               << W("aerial_win_rate", 30), W("xg_p90", 25), W("shot_conversion", 20),
                  W("pressures_p90", 15), W("dribbles_p90", 10) >>
          [] r = "Winger" ->
               << W("dribbles_p90", 30), W("shots_p90", 20), W("key_passes_p90", 20),
                  W("distance_p90", 15), W("press_success", 15) >>
          [] r = "Box-to-Box MF" ->
               << W("distance_p90", 25), W("prog_passes_p90", 20), W("pressures_p90", 20),
                  W("dribbles_p90", 15), W("shots_p90", 20) >>
          [] r = "Ball-Playing Def" ->
               << W("pass_completion", 30), W("prog_passes_p90", 25), W("key_passes_p90", 20),
                  W("aerial_win_rate", 15), W("pressures_p90", 10) >>
          [] r = "Deep-Lying Playmaker" ->
               << W("key_passes_p90", 30), W("pass_completion", 30),
                  W("prog_passes_p90", 25), W("xg_p90", 15) >>
          [] r = "Pressing Winger" ->
               << W("pressures_p90", 30), W("press_success", 25),
                  W("distance_p90", 20), W("dribbles_p90", 25) >> ]

----------------------------------------------------------------------------
(* Utilities *)

Range(s) == {s[i] : i \in 1..Len(s)}

Min(a, b) == IF a <= b THEN a ELSE b

\* Math.round(num / den) for den > 0: floor(num/den + 1/2).
RoundDiv(num, den) == (2 * num + den) \div (2 * den)

\* player[m] || 0
Metric(player, m) == IF m \in DOMAIN player THEN player[m] ELSE 0

RECURSIVE WeightedSum(_, _, _)
WeightedSum(player, entries, i) ==
    IF i > Len(entries) THEN 0
    ELSE Metric(player, entries[i].attr) * entries[i].weight
         + WeightedSum(player, entries, i + 1)

\* calcRoleFit: Math.round(Math.min(score, 99)), score in hundredths.
calcRoleFit(player, roleWeights) ==
    LET score == WeightedSum(player, roleWeights, 1)
    IN  RoundDiv(Min(score, 9900), 100)

RECURSIVE SumMetrics(_, _, _)
SumMetrics(player, ms, i) ==
    IF i > Len(ms) THEN 0
    ELSE Metric(player, ms[i]) + SumMetrics(player, ms, i + 1)

\* getRadarValue: the unrounded mean, kept as numerator and denominator.
getRadarValue(player, axis) ==
    [num |-> SumMetrics(player, axis.metrics, 1), den |-> Len(axis.metrics)]

RECURSIVE SquaredDistance(_, _, _)
SquaredDistance(a, b, i) ==
    IF i > Len(METRICS) THEN 0
    ELSE LET d == Metric(a, METRICS[i]) - Metric(b, METRICS[i])
         IN  d * d + SquaredDistance(a, b, i + 1)

\* Math.round((1 - sqrt(sum) / sqrt(n * 100 * 100)) * 100), exactly.
\* (1 - sqrt(sum) / sqrt(n * 10000)) * 100 is 100 - sqrt(sum / n), and
\* Math.round(x) is the greatest integer k <= x + 1/2.  With k = 100 - m:
\*     100 - m <= 100 - sqrt(sum / n) + 1/2   iff   n * (2m - 1)^2 >= 4 * sum  (m >= 1)
\* and m = 0 is possible only when sqrt(sum / n) <= 1/2.  So the result is
\* 100 - m for the least m >= 0 with n * (2m + 1)^2 >= 4 * sum.  Equality
\* never holds for n = 11 (an odd number against an even one), so there is
\* no rounding tie for floating point to break differently.
Reaches(sum, n, m) == n * (2 * m + 1) * (2 * m + 1) >= 4 * sum

RECURSIVE UpperM(_, _, _)
UpperM(sum, n, m) == IF Reaches(sum, n, m) THEN m ELSE UpperM(sum, n, 2 * m + 1)

RECURSIVE LeastM(_, _, _, _)
LeastM(sum, n, lo, hi) ==
    IF lo >= hi THEN lo
    ELSE LET mid == (lo + hi) \div 2
         IN  IF Reaches(sum, n, mid) THEN LeastM(sum, n, lo, mid)
             ELSE LeastM(sum, n, mid + 1, hi)

SimilarityOf(sum, n) == 100 - LeastM(sum, n, 0, UpperM(sum, n, 0))

\* euclideanSimilarity returning the distance share, the "1 -" forgotten.
euclideanSimilarity_distance(a, b) ==
    100 - SimilarityOf(SquaredDistance(a, b, 1), Len(METRICS))

RECURSIVE SquaredDistanceOwn(_, _, _)
SquaredDistanceOwn(a, b, i) ==
    IF i > Len(METRICS) THEN 0
    ELSE LET d == Metric(a, METRICS[i]) - Metric(b, METRICS[i])
         IN  (IF METRICS[i] \in DOMAIN a THEN d * d ELSE 0)
             + SquaredDistanceOwn(a, b, i + 1)

\* euclideanSimilarity looping over the first record's own keys, not METRICS.
euclideanSimilarity_ownKeys(a, b) ==
    SimilarityOf(SquaredDistanceOwn(a, b, 1), Len(METRICS))

euclideanSimilarity(a, b) ==
    SimilarityOf(SquaredDistance(a, b, 1), Len(METRICS))

\* computeOverall dividing by the number of metrics the player has, not by
\* METRICS.length.
computeOverall_presentOnly(player) ==
    LET present == Cardinality(DOMAIN player \cap Range(METRICS))
    IN  IF present = 0 THEN 0 ELSE RoundDiv(SumMetrics(player, METRICS, 1), present)

\* computeOverall: Math.round(sum / METRICS.length)
computeOverall(player) ==
    RoundDiv(SumMetrics(player, METRICS, 1), Len(METRICS))

----------------------------------------------------------------------------
(* Engine harness: the pure functions applied to drawn inputs *)

NumVaried == 2

\* Metric values a record may carry: inside 0-100, on its edges, outside it.
MetricVals == {-50, 0, 35, 100, 400}

\* Player records whose present metrics are among the first NumVaried
\* catalog metrics; every other metric is absent.
MetricRecords ==
    UNION { [S -> MetricVals] : S \in SUBSET Range(SubSeq(METRICS, 1, NumVaried)) }

\* Templates a later version could add: weights summing above 1, a negative weight.
FutureTemplates ==
    { << W("shots_p90", 90), W("xg_p90", 90) >>,
      << W("shots_p90", -50), W("xg_p90", 25) >> }

Templates == Range([i \in 1..Len(ROLE_NAMES) |-> ROLES[ROLE_NAMES[i]]]) \cup FutureTemplates

NoResult == [op |-> "none"]

ApplyCalcRoleFit ==
    /\ eout = NoResult
    /\ eout' = [op |-> "fit", fit |-> calcRoleFit(ea, ew)]
    /\ UNCHANGED <<ea, eb, ew>>
    /\ UNCHANGED appVars

ApplySimilarity ==
    /\ eout = NoResult
    /\ eout' = [op |-> "sim",
                ab |-> euclideanSimilarity(ea, eb),
                ba |-> euclideanSimilarity(eb, ea),
                aa |-> euclideanSimilarity(ea, ea)]
    /\ UNCHANGED <<ea, eb, ew>>
    /\ UNCHANGED appVars

\* Metric values for the records computeOverall is applied to.
OverallVals == MetricVals \cup {1, 50, 99}

\* A record with `filled` consecutive catalog metrics after the first
\* `skipped`: the first `low` of them at v, the others at w.
Segments(skipped, filled, low, v, w) ==
    [m \in Range(SubSeq(METRICS, skipped + 1, skipped + filled)) |->
        LET k == CHOOSE j \in 1..Len(METRICS) : METRICS[j] = m
        IN  IF k <= skipped + low THEN v ELSE w]

\* Records from empty to full, with absent metrics before and after the
\* present ones.
OverallRecords ==
    { Segments(skipped, filled, low, v, w) :
        skipped \in {0, 1},
        filled \in {0, 1, Len(METRICS) - 2, Len(METRICS) - 1},
        low \in {0, 1, 4},
        v \in OverallVals, w \in OverallVals }
    \cup { [m \in Range(METRICS) |-> v] : v \in OverallVals }

ApplyComputeOverall ==
    /\ eout = NoResult
    /\ eout' = [op |-> "overall", overall |-> computeOverall(ea)]
    /\ UNCHANGED <<ea, eb, ew>>
    /\ UNCHANGED appVars

----------------------------------------------------------------------------
(* Sorting, parsing, object spread *)

\* Array.prototype.sort with the comparator (a, b) => b.k - a.k: the stable
\* descending order.  The last element goes behind every element that does
\* not compare below it.
RECURSIVE SortDesc(_)
SortDesc(s) ==
    IF Len(s) <= 1 THEN s
    ELSE LET n    == Len(s)
             x    == s[n]
             rest == SortDesc(SubSeq(s, 1, n - 1))
             k    == Cardinality({i \in 1..(n - 1) : rest[i].k >= x.k})
         IN  SubSeq(rest, 1, k) \o <<x>> \o SubSeq(rest, k + 1, n - 1)

Keyed(s, keys) == [i \in 1..Len(s) |-> [k |-> keys[i], v |-> s[i]]]

Unkeyed(s) == [i \in 1..Len(s) |-> s[i].v]

\* A comparator that never answers 0 (b.fit >= a.fit ? 1 : -1): every
\* element goes in front of its equals.
RECURSIVE SortDescTiesSwapped(_)
SortDescTiesSwapped(s) ==
    IF Len(s) <= 1 THEN s
    ELSE LET n    == Len(s)
             x    == s[n]
             rest == SortDescTiesSwapped(SubSeq(s, 1, n - 1))
             k    == Cardinality({i \in 1..(n - 1) : rest[i].k > x.k})
         IN  SubSeq(rest, 1, k) \o <<x>> \o SubSeq(rest, k + 1, n - 1)

SortDescByFit_tiesSwapped(s) ==
    [i \in 1..Len(s) |->
        SortDescTiesSwapped([j \in 1..Len(s) |-> [k |-> s[j].fit, v |-> s[j]]])[i].v]

\* .sort((a, b) => b.fit - a.fit)
SortDescByFit(s) == Unkeyed(SortDesc(Keyed(s, [i \in 1..Len(s) |-> s[i].fit])))

\* .sort((a, b) => b.sim - a.sim)
SortDescBySim(s) == Unkeyed(SortDesc(Keyed(s, [i \in 1..Len(s) |-> s[i].sim])))

\* Array.prototype.slice(0, n)
Slice0(s, n) == SubSeq(s, 1, Min(n, Len(s)))

\* { ...obj, [field]: val }
Spread(obj, field, val) ==
    [k \in DOMAIN obj \cup {field} |-> IF k = field THEN val ELSE obj[k]]

DigitValue(c) ==
    CASE c = "0" -> 0 [] c = "1" -> 1 [] c = "2" -> 2 [] c = "3" -> 3 [] c = "4" -> 4
      [] c = "5" -> 5 [] c = "6" -> 6 [] c = "7" -> 7 [] c = "8" -> 8 [] c = "9" -> 9
      [] OTHER -> -1

RECURSIVE DigitsPrefix(_, _, _)
DigitsPrefix(chars, i, acc) ==
    IF i > Len(chars) \/ DigitValue(chars[i]) < 0 THEN [n |-> acc, next |-> i]
    ELSE DigitsPrefix(chars, i + 1, 10 * acc + DigitValue(chars[i]))

\* parseInt(string): an optional sign, then the longest prefix of decimal
\* digits; NaN when there is no digit.
ParseInt(chars) ==
    LET signed == Len(chars) >= 1 /\ chars[1] \in {"-", "+"}
        first  == IF signed THEN 2 ELSE 1
        d      == DigitsPrefix(chars, first, 0)
    IN  IF d.next = first THEN [nan |-> TRUE, n |-> 0]
        ELSE [nan |-> FALSE,
              n |-> IF signed /\ chars[1] = "-" THEN 0 - d.n ELSE d.n]

\* x <= y for a number x and a parseInt result y: false when y is NaN.
LeqParsed(x, y) == ~y.nan /\ x <= y.n

----------------------------------------------------------------------------
(* The dataset *)

MaxPlayers == 3

\* slice(0, 20) of the role leaderboard and slice(0, 5) of the shortlist.
LeaderboardSize == 20

SimilarTopN == 5

Pl(id, name, position, age, metrics) ==
    [player_id |-> id, name |-> name, position |-> position, age |-> age] @@ metrics

\* The records a response body is made of.  Two share every metric value (all
\* their scores tie), two share a name, one has a single metric (two
\* templates weigh it the same), one is at the top of every metric.
SamplePlayers ==
    { Pl(1, "ana", "FW", 22,
         [shots_p90 |-> 80, xg_p90 |-> 60, shot_conversion |-> 70,
          aerial_win_rate |-> 50, dribbles_p90 |-> 40]),
      Pl(2, "Bo", "FW", 31,
         [shots_p90 |-> 80, xg_p90 |-> 60, shot_conversion |-> 70,
          aerial_win_rate |-> 50, dribbles_p90 |-> 40]),
      Pl(3, "cy", "MF", 27,
         [pass_completion |-> 90]),
      Pl(4, "Bo", "MF", 24,
         [m \in Range(METRICS) |-> 100]) }

\* Bodies that parse to an array: the sample records in any order, none twice.
ArrayBodies ==
    { s \in UNION { [1..n -> SamplePlayers] : n \in 0..MaxPlayers } :
        \A i, j \in 1..Len(s) : i # j => s[i] # s[j] }

\* A record whose shots_p90 is the JSON value true.
TruePlayer ==
    Pl(5, "ana", "FW", 22,
       [shots_p90 |-> 1, xg_p90 |-> 60, json_true |-> {"shots_p90"}])

\* Bodies that parse to an array holding that record: alone, before or after
\* a sample record.
MalformedBodies ==
    { <<TruePlayer>> }
        \cup { <<TruePlayer, p>> : p \in SamplePlayers }
        \cup { <<p, TruePlayer>> : p \in SamplePlayers }

\* The JSON value null where a record is expected.
NullRecord == [json_null |-> TRUE]

\* Bodies that parse to an array of sample records followed by null.
NullBodies == { <<NullRecord>> } \cup { <<p, NullRecord>> : p \in SamplePlayers }

MaxSquad == 21

\* The i-th record of a generated squad.  Names, positions and ages cycle
\* with different periods; the metrics depend on i modulo 7 alone, so the
\* records i and i + 7 tie on every score.
SquadPlayer(i) ==
    Pl(i,
       CASE i % 3 = 1 -> "ana" [] i % 3 = 2 -> "Bo" [] OTHER -> "cy",
       IF i % 2 = 1 THEN "FW" ELSE "MF",
       18 + ((i * 5) % 20),
       [m \in Range(METRICS) |->
          LET k == CHOOSE j \in 1..Len(METRICS) : METRICS[j] = m
              g == i % 7
          IN  (g * 29 + k * 13 + g * k * 7) % 101])

\* Bodies of squads around the sizes the shortlist and the leaderboard are
\* cut at.
SquadSizes ==
    {SimilarTopN, SimilarTopN + 1, SimilarTopN + 2,
     LeaderboardSize - 1, LeaderboardSize, MaxSquad}

SquadBodies == { [i \in 1..n |-> SquadPlayer(i)] : n \in SquadSizes }

\* String.prototype.localeCompare orders letters without regard to case
\* before it looks at case, so "ana" < "Bo" < "cy" although "B" is the
\* smallest code unit of the three.
CollationKey(name) ==
    CASE name = "ana" -> 1 [] name = "Bo" -> 2 [] name = "cy" -> 3

\* PLAYERS.sort((a, b) => a.name.localeCompare(b.name)): stable, ascending.
SortByName(players) ==
    Unkeyed(SortDesc(Keyed(players,
        [i \in 1..Len(players) |-> 0 - CollationKey(players[i].name)])))

\* PLAYERS.forEach(p => { p.overall = computeOverall(p); })
AttachOverall(players) ==
    [i \in 1..Len(players) |-> Spread(players[i], "overall", computeOverall(players[i]))]

\* loadData without its PLAYERS.sort.
LoadedPlayers_unsorted(body) == AttachOverall(body)

\* What loadData leaves in PLAYERS for an array body.
LoadedPlayers(body) == SortByName(AttachOverall(body))

----------------------------------------------------------------------------
(* The render handlers, as functions of what they read *)

\* A <select> with no matching option has selectedIndex -1 and value "".
NoOption == -1

\* PLAYERS[value] is a player, not undefined.
HasPlayer(players, value) == value \in 0..(Len(players) - 1)

PlayerAt(players, value) == players[value + 1]

\* axes.map(axis => getRadarValue(p, axis)) over RADAR_AXES
RadarOf(p) == [i \in 1..Len(RADAR_AXES) |-> getRadarValue(p, RADAR_AXES[i])]

\* The role scores sorted with a.fit - b.fit: ascending.
RoleFits_ascending(p) ==
    LET fits == [i \in 1..Len(ROLE_NAMES) |->
                    [role |-> ROLE_NAMES[i], fit |-> calcRoleFit(p, ROLES[ROLE_NAMES[i]])]]
        desc == SortDescByFit(fits)
    IN  [i \in 1..Len(desc) |-> desc[Len(desc) + 1 - i]]

\* Object.entries(ROLES).map(...).sort((a, b) => b.fit - a.fit)
RoleFits(p) ==
    SortDescByFit([i \in 1..Len(ROLE_NAMES) |->
        [role |-> ROLE_NAMES[i], fit |-> calcRoleFit(p, ROLES[ROLE_NAMES[i]])]])

\* PLAYERS.map(pl => ({ ...pl, fit })).sort(...).slice(0, 20)
Leaderboard(players, role) ==
    Slice0(SortDescByFit([i \in 1..Len(players) |->
               Spread(players[i], "fit", calcRoleFit(players[i], ROLES[role]))]),
           LeaderboardSize)

\* [...METRICS].sort((a, b) => (p[b] || 0) - (p[a] || 0))
SortedMetrics(p) ==
    Unkeyed(SortDesc(Keyed(METRICS, [i \in 1..Len(METRICS) |-> Metric(p, METRICS[i])])))

OverviewView(p) ==
    LET sorted == SortedMetrics(p)
    IN  [kind    |-> "overview",
         player  |-> p.player_id,
         overall |-> p.overall,
         top5    |-> Slice0(sorted, 5),
         bot3    |-> SubSeq(sorted, Len(sorted) - 2, Len(sorted)),
         roles   |-> Slice0(RoleFits(p), 3),
         radar   |-> RadarOf(p)]

CompareView(a, b) ==
    [kind  |-> "compare",
     a     |-> a.player_id,
     b     |-> b.player_id,
     aWins |-> Cardinality({i \in 1..Len(METRICS) :
                   Metric(a, METRICS[i]) > Metric(b, METRICS[i])}),
     bWins |-> Cardinality({i \in 1..Len(METRICS) :
                   Metric(b, METRICS[i]) > Metric(a, METRICS[i])}),
     radar |-> <<RadarOf(a), RadarOf(b)>>]

RoleFitView(players, p) ==
    LET fits == RoleFits(p)
        best == fits[1]
        axes == Slice0(ROLES[best.role], 6)
    IN  [kind        |-> "rolefit",
         player      |-> p.player_id,
         fits        |-> fits,
         best        |-> best,
         leaderboard |-> Leaderboard(players, best.role),
         radar       |-> [i \in 1..Len(axes) |-> Metric(p, axes[i].attr)]]

\* The pool without the player_id test: the reference stays a candidate.
CandidatePool_keepsRef(players, ref, posFilter, ageFilter) ==
    LET inPos == IF posFilter # "all"
                 THEN SelectSeq(players, LAMBDA p : p.position = posFilter)
                 ELSE players
    IN  SelectSeq(inPos, LAMBDA p : LeqParsed(p.age, ageFilter))

\* The three filters of renderSimilar, in the order the code applies them.
CandidatePool(players, ref, posFilter, ageFilter) ==
    LET others  == SelectSeq(players, LAMBDA p : p.player_id # ref.player_id)
        inPos   == IF posFilter # "all"
                   THEN SelectSeq(others, LAMBDA p : p.position = posFilter)
                   ELSE others
    IN  SelectSeq(inPos, LAMBDA p : LeqParsed(p.age, ageFilter))

\* pool.map(p => ({ ...p, sim })).sort((a, b) => b.sim - a.sim).slice(0, 5)
\* The shortlist cut before it is ordered: pool.slice(0, 5) scored and
\* sorted.
Scored_sliceFirst(ref, pool) ==
    LET cut == Slice0(pool, SimilarTopN)
    IN  SortDescBySim([i \in 1..Len(cut) |->
            Spread(cut[i], "sim", euclideanSimilarity(ref, cut[i]))])

Scored(ref, pool) ==
    Slice0(SortDescBySim([i \in 1..Len(pool) |->
               Spread(pool[i], "sim", euclideanSimilarity(ref, pool[i]))]),
           SimilarTopN)

\* The template without its scored.length === 0 branch: scored[0] is read
\* whatever the length.
SimilarBody_unguarded(scored) ==
    [kind |-> "cards",
     topMatch |-> IF Len(scored) = 0 THEN "undefined" ELSE scored[1].name]

\* The branch of the template on scored.length === 0; scored[0] is read in
\* the other branch alone.
SimilarBody(scored) ==
    IF Len(scored) = 0
    THEN [kind |-> "no-match", topMatch |-> "none"]
    ELSE [kind |-> "cards", topMatch |-> scored[1].name]

SimilarView(players, ref, posFilter, ageFilter) ==
    LET scored == Scored(ref, CandidatePool(players, ref, posFilter, ageFilter))
    IN  [kind   |-> "similar",
         ref    |-> ref.player_id,
         scored |-> scored,
         body   |-> SimilarBody(scored),
         radar  |-> IF Len(scored) > 0
                    THEN <<RadarOf(ref), RadarOf(scored[1])>>
                    ELSE <<>>]

\* (p[attr] || 0).toFixed(1) throws a TypeError when the value is no number.
ToFixedThrows(p, attr) == "json_true" \in DOMAIN p /\ attr \in p.json_true

\* renderOverview calls toFixed on every catalog metric of p (line 309).
OverviewThrows(players, s) ==
    /\ HasPlayer(players, s.overview.value)
    /\ \E i \in 1..Len(METRICS) :
         ToFixedThrows(PlayerAt(players, s.overview.value), METRICS[i])

\* renderCompare calls toFixed on every catalog metric of a and of b (line 408).
CompareThrows(players, s) ==
    /\ HasPlayer(players, s.compareA.value)
    /\ HasPlayer(players, s.compareB.value)
    /\ \E i \in 1..Len(METRICS) :
         \/ ToFixedThrows(PlayerAt(players, s.compareA.value), METRICS[i])
         \/ ToFixedThrows(PlayerAt(players, s.compareB.value), METRICS[i])

\* renderRoleFit calls toFixed on the metrics of the best role (line 505),
\* before it builds the leaderboard.
RoleFitThrows(players, s) ==
    /\ HasPlayer(players, s.role.value)
    /\ "json_true" \in DOMAIN PlayerAt(players, s.role.value)
    /\ LET p    == PlayerAt(players, s.role.value)
           best == RoleFits(p)[1]
       IN  \E i \in 1..Len(ROLES[best.role]) : ToFixedThrows(p, ROLES[best.role][i].attr)

\* Each handler returns before touching its container when PLAYERS[value]
\* is undefined, and leaves the container alone when its template throws.
renderOverview(players, s, old) ==
    IF HasPlayer(players, s.overview.value) /\ ~OverviewThrows(players, s)
    THEN OverviewView(PlayerAt(players, s.overview.value))
    ELSE old

renderCompare(players, s, old) ==
    IF /\ HasPlayer(players, s.compareA.value)
       /\ HasPlayer(players, s.compareB.value)
       /\ ~CompareThrows(players, s)
    THEN CompareView(PlayerAt(players, s.compareA.value),
                     PlayerAt(players, s.compareB.value))
    ELSE old

renderRoleFit(players, s, old) ==
    IF HasPlayer(players, s.role.value) /\ ~RoleFitThrows(players, s)
    THEN RoleFitView(players, PlayerAt(players, s.role.value))
    ELSE old

renderSimilar(players, s, pos, age, old) ==
    IF HasPlayer(players, s.similar.value)
    THEN SimilarView(players, PlayerAt(players, s.similar.value), pos, ParseInt(age))
    ELSE old

\* renderRoleFit ranking PLAYERS itself: PLAYERS.forEach(pl => pl.fit = ...)
\* and PLAYERS.sort(...), without the copy that map makes.
PlayersAfterRoleFit_inPlace(players, s) ==
    IF HasPlayer(players, s.role.value) /\ ~RoleFitThrows(players, s)
    THEN LET best == RoleFits(PlayerAt(players, s.role.value))[1]
         IN  SortDescByFit([i \in 1..Len(players) |->
                 Spread(players[i], "fit", calcRoleFit(players[i], ROLES[best.role]))])
    ELSE players

\* PLAYERS after renderRoleFit: PLAYERS.map builds a new array of new
\* objects ({ ...pl, fit }), and sort and slice work on that array.
PlayersAfterRoleFit(players, s) == players

\* PLAYERS after renderSimilar: PLAYERS.filter and pool.map build new arrays,
\* and the sim property is put on the copies ({ ...p, sim }).
PlayersAfterSimilar(players, s, pos, age) == players

----------------------------------------------------------------------------
(* The page *)

Initial == [kind |-> "initial"]

Failed(message) == [kind |-> "failed", message |-> message]

SelectIds == {"overview", "compareA", "compareB", "role", "similar"}

\* populateSelect: one option per player, then el.value = selected.
populateSelect(players, selected) ==
    [options |-> Len(players),
     value   |-> IF HasPlayer(players, selected) THEN selected ELSE NoOption]

\* The options of the two filter selects.  "XX" is no position of the
\* dataset and <<"a","n","y">> parses to no number.
PosOptions == {"all", "FW", "XX"}

AgeOptions == { <<"4", "0">>, <<"2", "5">>, <<"a", "n", "y">> }

AppInit ==
    /\ pc = "fetch"
    /\ PLAYERS = <<>>
    /\ isArray = TRUE
    /\ wired = FALSE
    /\ sel = [id \in SelectIds |-> [options |-> 0, value |-> NoOption]]
    /\ posValue = "all"
    /\ ageValue = <<"4", "0">>
    /\ overviewContent = Initial
    /\ compareContent = Initial
    /\ rolefitContent = Initial
    /\ similarContent = Initial

EngineIdle ==
    /\ ea = <<>>
    /\ eb = <<>>
    /\ ew = <<>>
    /\ eout = NoResult

Init == AppInit /\ EngineIdle

\* The catch block of loadData.
LoadFails(message) ==
    /\ pc' = "failed"
    /\ overviewContent' = Failed(message)
    /\ UNCHANGED <<wired, sel, posValue, ageValue,
                   compareContent, rolefitContent, similarContent>>

\* fetch rejects.
FetchRejects ==
    /\ pc = "fetch"
    /\ LoadFails("fetch")
    /\ UNCHANGED <<PLAYERS, isArray>>
    /\ UNCHANGED engineVars

\* fetch resolves with a response that is not ok: throw new Error(`HTTP ...`).
FetchNotOk ==
    /\ pc = "fetch"
    /\ LoadFails("HTTP")
    /\ UNCHANGED <<PLAYERS, isArray>>
    /\ UNCHANGED engineVars

\* fetch resolves with an ok response: loadData awaits response.json().
FetchOk ==
    /\ pc = "fetch"
    /\ pc' = "json"
    /\ UNCHANGED <<PLAYERS, isArray, wired, sel, posValue, ageValue,
                   overviewContent, compareContent, rolefitContent, similarContent>>
    /\ UNCHANGED engineVars

\* response.json() rejects: the body is not JSON.
JsonRejects ==
    /\ pc = "json"
    /\ LoadFails("json")
    /\ UNCHANGED <<PLAYERS, isArray>>
    /\ UNCHANGED engineVars

\* The body parses to a value that is no array: it is assigned to PLAYERS
\* and PLAYERS.forEach throws.
JsonNotArray ==
    /\ pc = "json"
    /\ PLAYERS' = <<>>
    /\ isArray' = FALSE
    /\ LoadFails("forEach")
    /\ UNCHANGED engineVars

\* The body parses to an array with a null in it: the array is assigned to
\* PLAYERS, forEach attaches overall to the records before the null and
\* computeOverall throws on player[m] at the null.
JsonNullRecord ==
    /\ pc = "json"
    /\ \E body \in NullBodies :
         PLAYERS' = AttachOverall(SubSeq(body, 1, Len(body) - 1)) \o <<NullRecord>>
    /\ isArray' = TRUE
    /\ LoadFails("computeOverall")
    /\ UNCHANGED engineVars

\* The body parses to an array: the rest of loadData and all of initApp run
\* in the same turn.  initApp populates the selects, attaches the listeners
\* and calls the four renders in turn; it runs inside the try of loadData, so
\* a render that throws ends it there and the catch block writes the failure
\* into #overview-content.
LoadArray(bodies) ==
    /\ pc = "json"
    /\ \E body \in bodies :
         LET players == LoadedPlayers(body)
             s == [id \in SelectIds |->
                     populateSelect(players,
                         IF id = "compareB" THEN Min(1, Len(players) - 1) ELSE 0)]
             t1 == OverviewThrows(players, s)
             t2 == t1 \/ CompareThrows(players, s)
             t3 == t2 \/ RoleFitThrows(players, s)
             p3 == IF t3 THEN players ELSE PlayersAfterRoleFit(players, s)
             p4 == IF t3 THEN p3 ELSE PlayersAfterSimilar(p3, s, posValue, ageValue)
         IN  /\ PLAYERS' = p4
             /\ sel' = s
             /\ overviewContent' = IF t3 THEN Failed("toFixed")
                                   ELSE renderOverview(players, s, overviewContent)
             /\ compareContent' = IF t2 THEN compareContent
                                  ELSE renderCompare(players, s, compareContent)
             /\ rolefitContent' = IF t3 THEN rolefitContent
                                  ELSE renderRoleFit(players, s, rolefitContent)
             /\ similarContent' = IF t3 THEN similarContent
                                  ELSE renderSimilar(p3, s, posValue, ageValue,
                                                     similarContent)
             /\ pc' = IF t3 THEN "failed" ELSE "ready"
    /\ isArray' = TRUE
    /\ wired' = TRUE
    /\ UNCHANGED <<posValue, ageValue>>
    /\ UNCHANGED engineVars

JsonArray == LoadArray(ArrayBodies)

\* The body holds a record with a metric that is no number.
JsonMalformed == LoadArray(MalformedBodies)

\* The body is a squad.
JsonSquad == LoadArray(SquadBodies)

\* The user picks another option of a player select; the listener, when
\* attached, re-renders its module.
Pick(id, v) ==
    /\ v \in 0..(sel[id].options - 1)
    /\ v # sel[id].value
    /\ sel' = [sel EXCEPT ![id].value = v]

ChangeOverview ==
    /\ \E v \in 0..MaxPlayers : Pick("overview", v)
    /\ overviewContent' = IF wired THEN renderOverview(PLAYERS, sel', overviewContent)
                          ELSE overviewContent
    /\ UNCHANGED <<pc, PLAYERS, isArray, wired, posValue, ageValue,
                   compareContent, rolefitContent, similarContent>>
    /\ UNCHANGED engineVars

ChangeCompare ==
    /\ \E id \in {"compareA", "compareB"} : \E v \in 0..MaxPlayers : Pick(id, v)
    /\ compareContent' = IF wired THEN renderCompare(PLAYERS, sel', compareContent)
                         ELSE compareContent
    /\ UNCHANGED <<pc, PLAYERS, isArray, wired, posValue, ageValue,
                   overviewContent, rolefitContent, similarContent>>
    /\ UNCHANGED engineVars

ChangeRole ==
    /\ \E v \in 0..MaxPlayers : Pick("role", v)
    /\ rolefitContent' = IF wired THEN renderRoleFit(PLAYERS, sel', rolefitContent)
                         ELSE rolefitContent
    /\ PLAYERS' = IF wired THEN PlayersAfterRoleFit(PLAYERS, sel') ELSE PLAYERS
    /\ UNCHANGED <<pc, isArray, wired, posValue, ageValue,
                   overviewContent, compareContent, similarContent>>
    /\ UNCHANGED engineVars

ChangeSimilar ==
    /\ \E v \in 0..MaxPlayers : Pick("similar", v)
    /\ similarContent' = IF wired
                         THEN renderSimilar(PLAYERS, sel', posValue, ageValue, similarContent)
                         ELSE similarContent
    /\ PLAYERS' = IF wired THEN PlayersAfterSimilar(PLAYERS, sel', posValue, ageValue)
                  ELSE PLAYERS
    /\ UNCHANGED <<pc, isArray, wired, posValue, ageValue,
                   overviewContent, compareContent, rolefitContent>>
    /\ UNCHANGED engineVars

ChangePosFilter ==
    /\ \E v \in PosOptions : v # posValue /\ posValue' = v
    /\ similarContent' = IF wired
                         THEN renderSimilar(PLAYERS, sel, posValue', ageValue, similarContent)
                         ELSE similarContent
    /\ PLAYERS' = IF wired THEN PlayersAfterSimilar(PLAYERS, sel, posValue', ageValue)
                  ELSE PLAYERS
    /\ UNCHANGED <<pc, isArray, wired, sel, ageValue,
                   overviewContent, compareContent, rolefitContent>>
    /\ UNCHANGED engineVars

ChangeAgeFilter ==
    /\ \E v \in AgeOptions : v # ageValue /\ ageValue' = v
    /\ similarContent' = IF wired
                         THEN renderSimilar(PLAYERS, sel, posValue, ageValue', similarContent)
                         ELSE similarContent
    /\ PLAYERS' = IF wired THEN PlayersAfterSimilar(PLAYERS, sel, posValue, ageValue')
                  ELSE PLAYERS
    /\ UNCHANGED <<pc, isArray, wired, sel, posValue,
                   overviewContent, compareContent, rolefitContent>>
    /\ UNCHANGED engineVars

Next ==
    \/ FetchRejects
    \/ FetchNotOk
    \/ FetchOk
    \/ JsonRejects
    \/ JsonNotArray
    \/ JsonArray
    \/ ChangeOverview
    \/ ChangeCompare
    \/ ChangeRole
    \/ ChangeSimilar
    \/ ChangePosFilter
    \/ ChangeAgeFilter

Spec == Init /\ [][Next]_vars

\* The page when the load fails or the body is malformed.
NextFail ==
    \/ FetchRejects
    \/ FetchNotOk
    \/ FetchOk
    \/ JsonRejects
    \/ JsonNotArray
    \/ JsonNullRecord
    \/ JsonMalformed
    \/ ChangeOverview
    \/ ChangeCompare
    \/ ChangeRole
    \/ ChangeSimilar
    \/ ChangePosFilter
    \/ ChangeAgeFilter

SpecFail == Init /\ [][NextFail]_vars

\* The role-fit and similarity modules over squads.
NextRank ==
    \/ FetchOk
    \/ JsonSquad
    \/ ChangeRole
    \/ ChangeSimilar
    \/ ChangePosFilter
    \/ ChangeAgeFilter

SpecRank == Init /\ [][NextRank]_vars

\* calcRoleFit on every drawn record and template.
InitFit ==
    /\ AppInit
    /\ ea \in MetricRecords
    /\ eb = <<>>
    /\ ew \in Templates
    /\ eout = NoResult

SpecFit == InitFit /\ [][ApplyCalcRoleFit]_vars

\* euclideanSimilarity on every drawn pair of records.
InitSim ==
    /\ AppInit
    /\ ea \in MetricRecords
    /\ eb \in MetricRecords
    /\ ew = <<>>
    /\ eout = NoResult

SpecSim == InitSim /\ [][ApplySimilarity]_vars

\* computeOverall on every drawn record.
InitOverall ==
    /\ AppInit
    /\ ea \in OverallRecords
    /\ eb = <<>>
    /\ ew = <<>>
    /\ eout = NoResult

SpecOverall == InitOverall /\ [][ApplyComputeOverall]_vars

----------------------------------------------------------------------------
(* Properties *)

\* The positions that occur in the dataset.
KnownPositions == {p.position : p \in SamplePlayers}

\* The candidate test of the similarity shortlist, stated on one player.
Eligible(p, ref, pos, ceiling) ==
    /\ p.player_id # ref.player_id
    /\ pos # "all" => p.position = pos
    /\ ~ceiling.nan
    /\ p.age <= ceiling.n

IndexIn(players, id) == CHOOSE k \in 1..Len(players) : players[k].player_id = id

\* C1: calcRoleFit returns an integer in [0, 99] for every player record and
\* every role template, negative values and weights included.
C1_RoleFitInRange ==
    eout.op = "fit" => eout.fit \in 0..99

\* C2: euclideanSimilarity(a, a) is exactly 100 for every player record a.
C2_SelfSimilarity ==
    eout.op = "sim" => eout.aa = 100

C2_Witness ==
    /\ eout.op = "sim"
    /\ eout.aa = 100
    /\ \E m \in DOMAIN ea : ea[m] > 100
    /\ DOMAIN ea # Range(SubSeq(METRICS, 1, NumVaried))

\* C3: euclideanSimilarity(a, b) equals euclideanSimilarity(b, a) for every
\* pair of records, also when different metrics are absent from the two.
C3_Symmetric ==
    eout.op = "sim" => eout.ab = eout.ba

C3_Witness ==
    /\ eout.op = "sim"
    /\ DOMAIN ea # DOMAIN eb
    /\ DOMAIN ea # {}
    /\ DOMAIN eb # {}
    /\ eout.ab = eout.ba
    /\ eout.ab < 100

\* C4: euclideanSimilarity returns an integer in [0, 100] for every pair of
\* records, values outside 0-100 included.
C4_SimilarityInRange ==
    eout.op = "sim" => eout.ab \in 0..100

\* C5: the similarity shortlist never holds the reference player, every
\* entry's age is at most the age ceiling, and with a position filter other
\* than "all" every entry has that position.
C5_ShortlistRespectsFilters ==
    similarContent.kind = "similar" =>
        LET ref     == PlayerAt(PLAYERS, sel.similar.value)
            ceiling == ParseInt(ageValue)
            scored  == similarContent.scored
        IN  /\ similarContent.ref = ref.player_id
            /\ \A i \in 1..Len(scored) :
                 /\ scored[i].player_id # ref.player_id
                 /\ ~ceiling.nan /\ scored[i].age <= ceiling.n
                 /\ posValue # "all" => scored[i].position = posValue

C5_Witness ==
    /\ similarContent.kind = "similar"
    /\ posValue = "FW"
    /\ ageValue = <<"2", "5">>
    /\ Len(similarContent.scored) = 1
    /\ Len(PLAYERS) = 3
    /\ \E i \in 1..Len(PLAYERS) : PLAYERS[i].position = "FW" /\ PLAYERS[i].age > 25

\* C6: the role leaderboard is in descending fit order, and two players with
\* the same fit keep the order they have in PLAYERS, which is by name.
C6_LeaderboardStable ==
    rolefitContent.kind = "rolefit" =>
        LET lb == rolefitContent.leaderboard
        IN  \A i, j \in 1..Len(lb) :
                i < j =>
                    /\ lb[i].fit >= lb[j].fit
                    /\ lb[i].fit = lb[j].fit =>
                         /\ IndexIn(PLAYERS, lb[i].player_id) < IndexIn(PLAYERS, lb[j].player_id)
                         /\ CollationKey(lb[i].name) <= CollationKey(lb[j].name)

C6_Witness ==
    /\ rolefitContent.kind = "rolefit"
    /\ LET lb == rolefitContent.leaderboard
       IN  /\ Len(lb) = 3
           /\ \E i, j \in 1..Len(lb) :
                 i < j /\ lb[i].fit = lb[j].fit /\ lb[i].name # lb[j].name
           /\ \E i, j \in 1..Len(lb) : lb[i].fit > lb[j].fit

\* C7: the best role of the selected player has the greatest calcRoleFit over
\* ROLES, and among the templates at that score it is the first declared.
C7_BestRoleFirstDeclared ==
    rolefitContent.kind = "rolefit" =>
        LET p    == PlayerAt(PLAYERS, sel.role.value)
            best == rolefitContent.best
            at   == CHOOSE i \in 1..Len(ROLE_NAMES) : ROLE_NAMES[i] = best.role
        IN  /\ best.fit = calcRoleFit(p, ROLES[best.role])
            /\ \A i \in 1..Len(ROLE_NAMES) :
                 /\ calcRoleFit(p, ROLES[ROLE_NAMES[i]]) <= best.fit
                 /\ i < at => calcRoleFit(p, ROLES[ROLE_NAMES[i]]) < best.fit

C7_Witness ==
    /\ rolefitContent.kind = "rolefit"
    /\ rolefitContent.best.role = "Ball-Playing Def"
    /\ calcRoleFit(PlayerAt(PLAYERS, sel.role.value), ROLES["Deep-Lying Playmaker"])
         = rolefitContent.best.fit

\* C8: a similarity shortlist asked for with an unrecognized filter value
\* (a position that is neither "all" nor a known one, an age that parses to
\* no number) ends in an invalid-argument error, never in an ordinary result.
C8_UnknownFilterReported ==
    ( /\ wired
      /\ HasPlayer(PLAYERS, sel.similar.value)
      /\ \/ posValue \notin KnownPositions \cup {"all"}
         \/ ParseInt(ageValue).nan )
    => similarContent.kind = "invalid-argument"

\* C9: with a reference selected and no candidate left by the filters,
\* renderSimilar shows an explicit empty result and reads no top match; with
\* no reference resolved the container keeps what it had before any render.
C9_EmptyShortlistExplicit ==
    pc = "ready" =>
        IF HasPlayer(PLAYERS, sel.similar.value)
        THEN LET ref == PlayerAt(PLAYERS, sel.similar.value)
             IN  (\A i \in 1..Len(PLAYERS) :
                      ~Eligible(PLAYERS[i], ref, posValue, ParseInt(ageValue)))
                 => /\ similarContent.kind = "similar"
                    /\ similarContent.scored = <<>>
                    /\ similarContent.body.kind = "no-match"
                    /\ similarContent.body.topMatch = "none"
                    /\ similarContent.radar = <<>>
        ELSE similarContent.kind = "initial"

C9_Witness ==
    /\ pc = "ready"
    /\ Len(PLAYERS) = 3
    /\ posValue = "all"
    /\ ageValue = <<"2", "5">>
    /\ similarContent.kind = "similar"
    /\ similarContent.body.kind = "no-match"

Rendered ==
    \/ overviewContent.kind = "overview"
    \/ compareContent.kind = "compare"
    \/ rolefitContent.kind = "rolefit"
    \/ similarContent.kind = "similar"

\* C10: no render (hence no engine call on PLAYERS) has happened, no select
\* is populated and no listener is attached unless loadData has fetched the
\* dataset, attached overall to every player and sorted PLAYERS by name.
C10_EngineAfterLoad ==
    (wired \/ Rendered \/ \E id \in SelectIds : sel[id].options > 0) =>
        /\ pc \notin {"fetch", "json"}
        /\ isArray
        /\ \A i \in 1..Len(PLAYERS) :
             /\ "overall" \in DOMAIN PLAYERS[i]
             /\ PLAYERS[i].overall = computeOverall(PLAYERS[i])
        /\ \A i, j \in 1..Len(PLAYERS) :
             i < j => CollationKey(PLAYERS[i].name) <= CollationKey(PLAYERS[j].name)

C10_Witness ==
    /\ wired
    /\ Len(PLAYERS) = 3
    /\ posValue = "FW"
    /\ rolefitContent.kind = "rolefit"
    /\ similarContent.kind = "similar"
    /\ sel.role.value = 2

\* C11: overall is written by loadData alone; once the load is over, no
\* render changes PLAYERS: same members, same order, every property of
\* every player as it was.
C11_PlayersFrozen ==
    /\ [](pc = "ready" =>
            \A i \in 1..Len(PLAYERS) :
                PLAYERS[i].overall = computeOverall(PLAYERS[i]))
    /\ [][pc = "ready" => PLAYERS' = PLAYERS]_vars

C11_Witness ==
    /\ pc = "ready"
    /\ Len(PLAYERS) = 3
    /\ sel.role.value # 0
    /\ rolefitContent.kind = "rolefit"
    /\ rolefitContent.leaderboard[1].player_id # PLAYERS[1].player_id
    /\ similarContent.kind = "similar"
    /\ Len(similarContent.scored) = 2
    /\ similarContent.scored[1].player_id = PLAYERS[3].player_id

\* C12: the role leaderboard holds one entry for each player of PLAYERS,
\* whatever their number.
C12_LeaderboardCoversAll ==
    (pc = "ready" /\ rolefitContent.kind = "rolefit") =>
        /\ Len(rolefitContent.leaderboard) = Len(PLAYERS)
        /\ \A i \in 1..Len(PLAYERS) :
             Cardinality({j \in 1..Len(rolefitContent.leaderboard) :
                 rolefitContent.leaderboard[j].player_id = PLAYERS[i].player_id}) = 1

\* The sum of the values of a record over a set of its keys.
RECURSIVE SumOver(_, _)
SumOver(p, keys) ==
    IF keys = {} THEN 0
    ELSE LET m == CHOOSE x \in keys : TRUE
         IN  p[m] + SumOver(p, keys \ {m})

\* C13: when the present metrics of a player lie in 0-100, computeOverall is
\* the integer nearest to (sum of the present metrics) / METRICS.length,
\* lies in 0..100, and is 0 for a player with no metrics.
C13_OverallIsRoundedMean ==
    (/\ eout.op = "overall"
     /\ \A m \in DOMAIN ea : ea[m] \in 0..100) =>
        LET sum == SumOver(ea, DOMAIN ea \cap Range(METRICS))
            n   == Len(METRICS)
            r   == eout.overall
        IN  /\ r \in 0..100
            /\ 2 * n * r <= 2 * sum + n
            /\ 2 * n * r > 2 * sum - n
            /\ DOMAIN ea = {} => r = 0

C13_Witness ==
    /\ eout.op = "overall"
    /\ \A m \in DOMAIN ea : ea[m] \in 0..100
    /\ Cardinality(DOMAIN ea) = Len(METRICS) - 1
    /\ "shots_p90" \notin DOMAIN ea
    /\ eout.overall = 90

\* The places in PLAYERS of the candidates of the current shortlist.
EligiblePlaces ==
    {i \in 1..Len(PLAYERS) :
        Eligible(PLAYERS[i], PlayerAt(PLAYERS, sel.similar.value),
                 posValue, ParseInt(ageValue))}

\* C14: the shortlist has min(5, number of candidates) entries, each a
\* candidate with its similarity to the reference; it is in descending
\* similarity order with equal similarities in the order of PLAYERS; and no
\* candidate left out is strictly more similar than an entry.
C14_ShortlistIsTopFive ==
    (pc = "ready" /\ similarContent.kind = "similar") =>
        LET ref    == PlayerAt(PLAYERS, sel.similar.value)
            scored == similarContent.scored
            places == [j \in 1..Len(scored) |-> IndexIn(PLAYERS, scored[j].player_id)]
        IN  /\ Len(scored) = Min(5, Cardinality(EligiblePlaces))
            /\ \A j \in 1..Len(scored) :
                 /\ places[j] \in EligiblePlaces
                 /\ scored[j].sim = euclideanSimilarity(ref, PLAYERS[places[j]])
            /\ \A j, k \in 1..Len(scored) :
                 j < k =>
                     \/ scored[j].sim > scored[k].sim
                     \/ scored[j].sim = scored[k].sim /\ places[j] < places[k]
            /\ \A i \in EligiblePlaces \ Range(places) :
                 \A j \in 1..Len(scored) :
                     euclideanSimilarity(ref, PLAYERS[i]) <= scored[j].sim

\* A shortlist cut from more than five candidates, with a tie inside it and
\* a candidate left out.
C14_Witness ==
    /\ pc = "ready"
    /\ similarContent.kind = "similar"
    /\ Cardinality(EligiblePlaces) > 5
    /\ Len(similarContent.scored) = 5
    /\ \E j \in 1..4 : similarContent.scored[j].sim = similarContent.scored[j + 1].sim
    /\ \E i \in EligiblePlaces :
         /\ \A j \in 1..5 : similarContent.scored[j].player_id # PLAYERS[i].player_id
         /\ euclideanSimilarity(PlayerAt(PLAYERS, sel.similar.value), PLAYERS[i])
              = similarContent.scored[5].sim

\* C15: once the load has failed, the failure message is what the page
\* shows, PLAYERS holds no player, no select is populated, no listener is
\* attached and no module has been or is ever rendered.
C15_FailureIsFinal ==
    pc = "failed" =>
        /\ overviewContent.kind = "failed"
        /\ Len(PLAYERS) = 0
        /\ ~wired
        /\ ~Rendered
        /\ \A id \in SelectIds : sel[id].options = 0

====
